---- MODULE Spec2Model ----
(***************************************************************************)
(* Model of the practice-session core of sargam-ai:                        *)
(*   app/services/scoring_service.py         ScoringService                *)
(*   app/services/practice_service.py        PracticeSessionService        *)
(*   app/services/audio_analysis_service.py  SongRecognitionService,       *)
(*                                           AudioAnalysisService          *)
(*   app/models/progress.py                  PracticeSession               *)
(*   app/sockets/practice.py                 the Socket.IO handlers        *)
(* Optional[T] values are modelled as sequences of length 0 (None) or 1.   *)
(* Times are integer milliseconds.  The floating-point arithmetic of       *)
(* calculate_session_score is modelled by the exact rational value, with   *)
(* Python's round() as round-half-to-even.                                 *)
(***************************************************************************)
EXTENDS Integers, Sequences, FiniteSets, TLC

VARIABLES
    sessions,   \* PracticeSessionService._active_sessions: session id -> Optional[ActiveSession]
    ret,        \* the last service call: its name, arguments and returned value
    played,     \* ScoringService.evaluate_note: argument `played`
    expected,   \* ScoringService.evaluate_note: argument `expected` (Optional)
    feedback,   \* ScoringService.evaluate_note: returned NoteFeedback (Optional: not yet called)
    counts,     \* ScoringService.calculate_session_score: the four arguments
    score,      \* ScoringService.calculate_session_score: returned dict (Optional: not yet called)
    played_notes,   \* SongRecognitionService.find_matching_songs: argument played_notes
    played_times,   \* find_matching_songs: argument played_times (Optional)
    song_patterns,  \* find_matching_songs: argument song_patterns (the catalog)
    matches,        \* find_matching_songs: returned list (Optional: not yet called)
    seq1,       \* _sliding_window_match / _subsequence_match / _start_match: first argument
    seq2,       \* the same: second argument
    strategy,   \* the scores the three strategies returned (Optional: not yet called)
    threads,    \* calls of process_note / end_session in progress: position and locals
    heap,       \* the ActiveSession object those calls hold a reference to (Optional)
    time_deltas,    \* _normalize_rhythm (both classes): argument time_intervals
    rhythms,        \* what the two _normalize_rhythm returned (Optional: not yet called)
    socket_users,   \* sockets/practice.py: socket_users, by socket id (None: no entry)
    connections,    \* the Socket.IO server: each socket id is "new", "open" or "closed"
    started_over    \* session id -> the socket whose start_session made it ("": none)

sessionVars == <<sessions, ret>>
scoringVars == <<played, expected, feedback, counts, score>>
matcherVars == <<played_notes, played_times, song_patterns, matches>>
strategyVars == <<seq1, seq2, strategy>>
concVars == <<threads, heap>>
rhythmVars == <<time_deltas, rhythms>>
socketVars == <<socket_users, connections, started_over>>
vars == <<sessionVars, scoringVars, matcherVars, strategyVars, concVars, rhythmVars, socketVars>>

None == <<>>
Some(x) == <<x>>

(***************************************************************************)
(* Bounds of the model.                                                    *)
(***************************************************************************)
MaxNotes == 2        \* longest expected-note list handed to start / update
MaxPlayed == 2       \* notes processed over all live sessions
MaxTimestamp == 700  \* largest played timestamp given to evaluate_note (ms)
MaxCount == 6        \* largest count given to calculate_session_score
MaxPlayedNotes == 5  \* most notes handed to find_matching_songs
MaxIntervals == 3    \* longest interval sequence handed to a matching strategy

SessionIds == {"s1", "s2"}

(***************************************************************************)
(* scoring_service.py                                                      *)
(***************************************************************************)
timing_tolerance_ms == 150
CORRECT_POINTS == 10
TIMING_ERROR_POINTS == 5
WRONG_NOTE_POINTS == 0

CORRECT == "correct"
WRONG_NOTE == "wrong_note"
EARLY == "early"
LATE == "late"
MISSED == "missed"
FeedbackType == {CORRECT, WRONG_NOTE, EARLY, LATE, MISSED}

NoteEvent(m, v, t) == [midi_note |-> m, velocity |-> v, timestamp |-> t]
ExpectedNote(m, t, d) == [midi_note |-> m, start_time |-> t, duration |-> d]

abs(x) == IF x < 0 THEN -x ELSE x

note_names == <<"C", "C#", "D", "D#", "E", "F", "F#", "G", "G#", "A", "A#", "B">>

midi_to_note_name(midi_note) ==
    <<note_names[(midi_note % 12) + 1], (midi_note \div 12) - 1>>

evaluate_note_mut_tolerance(p, e) ==
    IF e = None
    THEN [feedback_type |-> WRONG_NOTE, expected_note |-> None,
          played_note |-> p.midi_note, timing_diff_ms |-> 0,
          score_delta |-> 0, message |-> <<"Extra note played">>]
    ELSE LET exp == e[1]
             timing_diff == p.timestamp - exp.start_time
             is_correct_note == p.midi_note = exp.midi_note
         IN  IF is_correct_note /\ abs(timing_diff) < timing_tolerance_ms
             THEN [feedback_type |-> CORRECT, expected_note |-> Some(exp.midi_note),
                   played_note |-> p.midi_note, timing_diff_ms |-> timing_diff,
                   score_delta |-> CORRECT_POINTS,
                   message |-> IF abs(timing_diff) < 50 THEN <<"Perfect!">> ELSE <<"Good!">>]
             ELSE IF is_correct_note /\ timing_diff < 0
             THEN [feedback_type |-> EARLY, expected_note |-> Some(exp.midi_note),
                   played_note |-> p.midi_note, timing_diff_ms |-> timing_diff,
                   score_delta |-> TIMING_ERROR_POINTS,
                   message |-> <<"Too early", abs(timing_diff)>>]
             ELSE IF is_correct_note
             THEN [feedback_type |-> LATE, expected_note |-> Some(exp.midi_note),
                   played_note |-> p.midi_note, timing_diff_ms |-> timing_diff,
                   score_delta |-> TIMING_ERROR_POINTS,
                   message |-> <<"Too late", timing_diff>>]
             ELSE [feedback_type |-> WRONG_NOTE, expected_note |-> Some(exp.midi_note),
                   played_note |-> p.midi_note, timing_diff_ms |-> timing_diff,
                   score_delta |-> WRONG_NOTE_POINTS,
                   message |-> <<"Wrong note (expected", midi_to_note_name(exp.midi_note)>>]

evaluate_note_mut_wrong(p, e) ==
    IF e = None
    THEN [feedback_type |-> WRONG_NOTE, expected_note |-> None,
          played_note |-> p.midi_note, timing_diff_ms |-> 0,
          score_delta |-> 0, message |-> <<"Extra note played">>]
    ELSE LET exp == e[1]
             timing_diff == p.timestamp - exp.start_time
         IN  IF abs(timing_diff) <= timing_tolerance_ms
             THEN [feedback_type |-> CORRECT, expected_note |-> Some(exp.midi_note),
                   played_note |-> p.midi_note, timing_diff_ms |-> timing_diff,
                   score_delta |-> CORRECT_POINTS,
                   message |-> IF abs(timing_diff) < 50 THEN <<"Perfect!">> ELSE <<"Good!">>]
             ELSE [feedback_type |-> WRONG_NOTE, expected_note |-> Some(exp.midi_note),
                   played_note |-> p.midi_note, timing_diff_ms |-> timing_diff,
                   score_delta |-> WRONG_NOTE_POINTS,
                   message |-> <<"Wrong note (expected", midi_to_note_name(exp.midi_note)>>]

\* ScoringService.evaluate_note(played, expected, next_expected); next_expected
\* is never read by the code and is left out.
evaluate_note(p, e) ==
    IF e = None
    THEN [feedback_type |-> WRONG_NOTE, expected_note |-> None,
          played_note |-> p.midi_note, timing_diff_ms |-> 0,
          score_delta |-> 0, message |-> <<"Extra note played">>]
    ELSE LET exp == e[1]
             timing_diff == p.timestamp - exp.start_time
             is_correct_note == p.midi_note = exp.midi_note
             is_within_tolerance == abs(timing_diff) <= timing_tolerance_ms
             is_early == timing_diff < -timing_tolerance_ms
             is_late == timing_diff > timing_tolerance_ms
         IN  IF is_correct_note /\ is_within_tolerance
             THEN [feedback_type |-> CORRECT, expected_note |-> Some(exp.midi_note),
                   played_note |-> p.midi_note, timing_diff_ms |-> timing_diff,
                   score_delta |-> CORRECT_POINTS,
                   message |-> IF abs(timing_diff) < 50 THEN <<"Perfect!">> ELSE <<"Good!">>]
             ELSE IF is_correct_note /\ is_early
             THEN [feedback_type |-> EARLY, expected_note |-> Some(exp.midi_note),
                   played_note |-> p.midi_note, timing_diff_ms |-> timing_diff,
                   score_delta |-> TIMING_ERROR_POINTS,
                   message |-> <<"Too early", abs(timing_diff)>>]
             ELSE IF is_correct_note /\ is_late
             THEN [feedback_type |-> LATE, expected_note |-> Some(exp.midi_note),
                   played_note |-> p.midi_note, timing_diff_ms |-> timing_diff,
                   score_delta |-> TIMING_ERROR_POINTS,
                   message |-> <<"Too late", timing_diff>>]
             ELSE [feedback_type |-> WRONG_NOTE, expected_note |-> Some(exp.midi_note),
                   played_note |-> p.midi_note, timing_diff_ms |-> timing_diff,
                   score_delta |-> WRONG_NOTE_POINTS,
                   message |-> <<"Wrong note (expected", midi_to_note_name(exp.midi_note)>>]

\* Python round() of the rational num/den (den > 0, num >= 0): half to even.
round(num, den) ==
    LET q == num \div den
        r == num % den
    IN  IF 2 * r > den \/ (2 * r = den /\ q % 2 = 1) THEN q + 1 ELSE q

\* ScoringService._calculate_grade on the rational score num/den (den > 0).
calculate_grade(num, den) ==
    IF num >= 90 * den THEN "A+"
    ELSE IF num >= 80 * den THEN "A"
    ELSE IF num >= 70 * den THEN "B"
    ELSE IF num >= 60 * den THEN "C"
    ELSE IF num >= 50 * den THEN "D"
    ELSE "F"

\* ScoringService._get_score_message: the band of the message.
get_score_message(num, den) ==
    IF num >= 90 * den THEN "Outstanding"
    ELSE IF num >= 80 * den THEN "Excellent"
    ELSE IF num >= 70 * den THEN "Good job"
    ELSE IF num >= 60 * den THEN "Nice effort"
    ELSE IF num >= 50 * den THEN "Getting there"
    ELSE "Keep practicing"

calculate_session_score_mut_guard(correct, timing_errors, wrong_notes, total_expected) ==
    IF total_expected = 0 /\ correct + timing_errors + wrong_notes = 0
    THEN [overallScore |-> 0, accuracy |-> 0, timing |-> 0, grade |-> "N/A",
          message |-> "No notes to evaluate"]
    ELSE LET total_attempts == correct + timing_errors + wrong_notes
             t_den == IF total_expected > 0 THEN total_expected ELSE 1
             a_den == IF total_attempts > 0 THEN total_attempts ELSE 1
             acc_num == 100 * correct
             tim_num == 50 * (2 * correct + timing_errors)
             ov_num == 7 * acc_num * a_den + 3 * tim_num * t_den
             ov_den == 10 * t_den * a_den
         IN  [overallScore |-> round(ov_num, ov_den),
              accuracy |-> round(acc_num, t_den),
              timing |-> round(tim_num, a_den),
              grade |-> calculate_grade(ov_num, ov_den),
              message |-> get_score_message(ov_num, ov_den),
              breakdown |-> [correct |-> correct, timingErrors |-> timing_errors,
                             wrongNotes |-> wrong_notes, totalExpected |-> total_expected]]

\* ScoringService.calculate_session_score.
\*   accuracy     = acc_num / acc_den       = correct / total_expected * 100
\*   timing_score = tim_num / tim_den       = (correct + timing_errors*0.5) / total_attempts * 100
\*   overall      = ov_num / ov_den         = accuracy * 0.7 + timing_score * 0.3
calculate_session_score(correct, timing_errors, wrong_notes, total_expected) ==
    IF total_expected = 0
    THEN [overallScore |-> 0, accuracy |-> 0, timing |-> 0, grade |-> "N/A",
          message |-> "No notes to evaluate"]
    ELSE LET total_attempts == correct + timing_errors + wrong_notes
             acc_num == 100 * correct
             acc_den == total_expected
             tim_num == IF total_attempts > 0 THEN 50 * (2 * correct + timing_errors) ELSE 0
             tim_den == IF total_attempts > 0 THEN total_attempts ELSE 1
             ov_num == 7 * acc_num * tim_den + 3 * tim_num * acc_den
             ov_den == 10 * acc_den * tim_den
         IN  [overallScore |-> round(ov_num, ov_den),
              accuracy |-> round(acc_num, acc_den),
              timing |-> round(tim_num, tim_den),
              grade |-> calculate_grade(ov_num, ov_den),
              message |-> get_score_message(ov_num, ov_den),
              breakdown |-> [correct |-> correct, timingErrors |-> timing_errors,
                             wrongNotes |-> wrong_notes, totalExpected |-> total_expected]]

(***************************************************************************)
(* practice_service.py                                                     *)
(***************************************************************************)
\* The expected-note lists a client sends: the first n notes of a tutorial
\* that alternates 60 and 62, note i starting at 500*(i-1) ms.  The dicts
\* carry no "duration" key, so the parser's default of 500 applies.
DEFAULT_DURATION == 500
Tutorial(i) == IF i % 2 = 1 THEN 60 ELSE 62
NoteDicts(n) == [i \in 1..n |-> [midiNote |-> Tutorial(i), startTime |-> 500 * (i - 1)]]
NoteLists == { NoteDicts(n) : n \in 0..MaxNotes }

\* The notes a client plays in a session: against the tutorial they give
\* every feedback type (correct, wrong, early and late).
PlayedNotes == {NoteEvent(60, 100, 0), NoteEvent(62, 100, 0), NoteEvent(62, 100, 700)}

\* The list comprehension of start_session / update_expected_notes.
parse_notes(notes) ==
    [i \in 1..Len(notes) |->
        ExpectedNote(notes[i].midiNote, notes[i].startTime, DEFAULT_DURATION)]

\* ActiveSession(...) with the dataclass defaults.
ActiveSession(notes) ==
    [expected_notes |-> notes,
     current_note_index |-> 0,
     notes_played |-> 0,
     notes_correct |-> 0,
     notes_wrong |-> 0,
     timing_errors |-> 0,
     current_score |-> 0,
     events |-> <<>>]

\* process_note, lines 150-159: the expected note at the cursor.
expected_at(session) ==
    IF session.current_note_index < Len(session.expected_notes)
    THEN Some(session.expected_notes[session.current_note_index + 1])
    ELSE None

advance_mut_always(session, fb) ==
    [session EXCEPT
        !.notes_played = @ + 1,
        !.notes_correct = IF fb.feedback_type = CORRECT THEN @ + 1 ELSE @,
        !.timing_errors = IF fb.feedback_type \in {EARLY, LATE} THEN @ + 1 ELSE @,
        !.notes_wrong = IF fb.feedback_type \notin {CORRECT, EARLY, LATE} THEN @ + 1 ELSE @,
        !.current_note_index = @ + 1,
        !.current_score = @ + fb.score_delta]

advance_mut_flat(session, fb) ==
    [session EXCEPT
        !.notes_played = @ + 1,
        !.notes_correct = IF fb.feedback_type = CORRECT THEN @ + 1 ELSE @,
        !.timing_errors = IF fb.feedback_type \in {EARLY, LATE} THEN @ + 1 ELSE @,
        !.notes_wrong = IF fb.feedback_type \notin {CORRECT, EARLY, LATE} THEN @ + 1 ELSE @,
        !.current_note_index = IF fb.feedback_type \in {CORRECT, EARLY, LATE} THEN @ + 1 ELSE @,
        !.current_score = @ + CORRECT_POINTS]

advance_mut_skip(session, fb) ==
    [session EXCEPT
        !.notes_played = @ + 1,
        !.notes_correct = IF fb.feedback_type = CORRECT THEN @ + 1 ELSE @,
        !.timing_errors = IF fb.feedback_type \in {EARLY, LATE} THEN @ + 1 ELSE @,
        !.notes_wrong = IF fb.feedback_type \notin {CORRECT, EARLY, LATE} THEN @ + 1 ELSE @,
        !.current_note_index = IF fb.feedback_type = CORRECT THEN @ + 2
                               ELSE IF fb.feedback_type \in {EARLY, LATE} THEN @ + 1 ELSE @,
        !.current_score = @ + fb.score_delta]

\* process_note, lines 164-176: the counters, the cursor and the score.
advance(session, fb) ==
    [session EXCEPT
        !.notes_played = @ + 1,
        !.notes_correct = IF fb.feedback_type = CORRECT THEN @ + 1 ELSE @,
        !.timing_errors = IF fb.feedback_type \in {EARLY, LATE} THEN @ + 1 ELSE @,
        !.notes_wrong = IF fb.feedback_type \notin {CORRECT, EARLY, LATE} THEN @ + 1 ELSE @,
        !.current_note_index = IF fb.feedback_type \in {CORRECT, EARLY, LATE} THEN @ + 1 ELSE @,
        !.current_score = @ + fb.score_delta]

log_event_mut_prepend(session, p, e, fb) ==
    [session EXCEPT
        !.events = <<[timestamp |-> p.timestamp,
                      midiNote |-> p.midi_note,
                      velocity |-> p.velocity,
                      expectedNote |-> IF e = None THEN None ELSE Some(e[1].midi_note),
                      feedback |-> fb.feedback_type,
                      timingDiff |-> fb.timing_diff_ms]>> \o @]

\* process_note, lines 178-186: the logged event.
log_event(session, p, e, fb) ==
    [session EXCEPT
        !.events = Append(@, [timestamp |-> p.timestamp,
                              midiNote |-> p.midi_note,
                              velocity |-> p.velocity,
                              expectedNote |-> IF e = None THEN None ELSE Some(e[1].midi_note),
                              feedback |-> fb.feedback_type,
                              timingDiff |-> fb.timing_diff_ms])]

\* process_note on a session that was found: the session after the call.
process_note(session, p) ==
    LET e == expected_at(session)
        fb == evaluate_note(p, e)
    IN  log_event(advance(session, fb), p, e, fb)

\* get_current_stats on a session that was found: the returned dict.
\* int((index / total) * 100) is modelled by the exact floor.
get_current_stats(session) ==
    LET total_expected == Len(session.expected_notes)
    IN  [notesPlayed |-> session.notes_played,
         notesCorrect |-> session.notes_correct,
         notesWrong |-> session.notes_wrong,
         timingErrors |-> session.timing_errors,
         currentScore |-> session.current_score,
         progress |-> IF total_expected > 0
                      THEN (session.current_note_index * 100) \div total_expected
                      ELSE 0,
         currentNoteIndex |-> session.current_note_index,
         totalNotes |-> total_expected]

update_expected_notes_mut_clamp(session, notes, reset_progress) ==
    [session EXCEPT
        !.expected_notes = parse_notes(notes),
        !.current_note_index = IF reset_progress THEN 0
                               ELSE IF @ > Len(notes) THEN Len(notes) ELSE @]

update_expected_notes_mut_reset(session, notes, reset_progress) ==
    [session EXCEPT
        !.expected_notes = parse_notes(notes),
        !.current_note_index = 0]

\* update_expected_notes on a session that was found: the session after it.
update_expected_notes(session, notes, reset_progress) ==
    [session EXCEPT
        !.expected_notes = parse_notes(notes),
        !.current_note_index = IF reset_progress THEN 0 ELSE @]

\* end_session, lines 226-233: the final results of a popped session.
final_results(session) ==
    calculate_session_score(session.notes_correct, session.timing_errors,
                            session.notes_wrong, Len(session.expected_notes))

\* end_session, lines 236-248: PracticeSession(...) as constructed from the
\* popped session (user, type, ids and clock times are not modelled).
PracticeSession(session) ==
    [notes_played |-> session.notes_played,
     notes_correct |-> session.notes_correct,
     notes_wrong |-> session.notes_wrong,
     timing_errors |-> session.timing_errors,
     final_score |-> final_results(session).overallScore,
     events_json |-> session.events]

\* PracticeSession.end_session (models/progress.py): the row recomputes its
\* final_score.  int((correct / played) * 100) is modelled by the exact floor.
practice_session_end(row) ==
    [row EXCEPT !.final_score =
        IF row.notes_played > 0
        THEN (row.notes_correct * 100) \div row.notes_played
        ELSE 0]

\* end_session, lines 236-249: the row handed to the database.
db_session(session) == practice_session_end(PracticeSession(session))

\* Notes processed by the live sessions (the bound MaxPlayed caps it).
RECURSIVE SumPlayed(_, _)
SumPlayed(tbl, ids) ==
    IF ids = {} THEN 0
    ELSE LET s == CHOOSE x \in ids : TRUE
         IN  (IF tbl[s] = None THEN 0 ELSE tbl[s][1].notes_played)
             + SumPlayed(tbl, ids \ {s})

get_mut_default(tbl, sid) ==
    IF tbl[sid] = None THEN Some(ActiveSession(<<>>)) ELSE tbl[sid]

\* self._active_sessions.get(session_id), and the lookup of pop(session_id, None)
get(tbl, sid) == tbl[sid]

NoCall == [op |-> "none", sid |-> "", args |-> <<>>, result |-> None, row |-> None, raised |-> FALSE]

SessionsIdle ==
    /\ sessions = [s \in SessionIds |-> None]
    /\ ret = NoCall

ScoringIdle ==
    /\ played = NoteEvent(0, 0, 0)
    /\ expected = None
    /\ feedback = None
    /\ counts = <<0, 0, 0, 0>>
    /\ score = None

(***************************************************************************)
(* audio_analysis_service.py: SongRecognitionService                       *)
(* Scores are exact rationals <<numerator, denominator>> in lowest terms.  *)
(* The code computes them in doubles; a double can fall on the other side  *)
(* of a rounding tie (71.5 computed as 71.499...).  The catalog below      *)
(* gives a rhythm only to patterns of three intervals, for which every     *)
(* confidence of the model equals the one the code computes.               *)
(***************************************************************************)
RECURSIVE GCD(_, _)
GCD(a, b) == IF b = 0 THEN a ELSE GCD(b, a % b)

Rat(n, d) == LET g == GCD(abs(n), d) IN <<n \div g, d \div g>>
RatLess(a, b) == a[1] * b[2] < b[1] * a[2]
RatMax(a, b) == IF RatLess(a, b) THEN b ELSE a
RatMul(a, b) == Rat(a[1] * b[1], a[2] * b[2])
RatAdd(a, b) == Rat(a[1] * b[2] + b[1] * a[2], a[2] * b[2])
Min(a, b) == IF a < b THEN a ELSE b
Max(a, b) == IF a > b THEN a ELSE b

\* SongRecognitionService.__init__
min_notes_for_match == 4
similarity_threshold == Rat(6, 10)
rhythm_weight == Rat(3, 10)
\* find_matching_songs: min(round(final_score * 100), 99) and matches[:5]
confidence_cap == 99
max_matches == 5
start_bonus == Rat(11, 10)

notes_to_intervals_mut_absolute(notes) ==
    [i \in 1..(Len(notes) - 1) |-> notes[i + 1] - 60]

\* SongRecognitionService._notes_to_intervals
notes_to_intervals(notes) ==
    [i \in 1..(Len(notes) - 1) |-> notes[i + 1] - notes[i]]

\* SongRecognitionService._times_to_intervals
times_to_intervals(times) ==
    [i \in 1..(Len(times) - 1) |-> times[i + 1] - times[i]]

\* SongRecognitionService._normalize_rhythm: one interval
rhythm_category(interval) ==
    IF interval < 200 THEN "S"
    ELSE IF interval < 500 THEN "M"
    ELSE IF interval < 1000 THEN "L"
    ELSE "X"

\* SongRecognitionService._normalize_rhythm
normalize_rhythm(time_intervals) ==
    [i \in 1..Len(time_intervals) |-> rhythm_category(time_intervals[i])]

\* SongRecognitionService._rhythm_close
rhythm_order(r) == CASE r = "S" -> 0 [] r = "M" -> 1 [] r = "L" -> 2 [] r = "X" -> 3 [] OTHER -> 0
rhythm_close(r1, r2) == abs(rhythm_order(r1) - rhythm_order(r2)) = 1

\* _rhythm_match, the inner loop: matches (in tenths) over the first n pairs
RECURSIVE rhythm_count(_, _, _, _)
rhythm_count(p, song, offset, n) ==
    IF n = 0 THEN 0
    ELSE rhythm_count(p, song, offset, n - 1)
         + (IF p[n] = song[offset + n] THEN 10
            ELSE IF rhythm_close(p[n], song[offset + n]) THEN 7
            ELSE 0)

\* _rhythm_match, the outer loop: best score over the first k offsets
RECURSIVE rhythm_best(_, _, _)
rhythm_best(p, song, k) ==
    IF k = 0 THEN Rat(0, 1)
    ELSE LET offset == k - 1
             comparisons == Min(Len(p), Len(song) - offset)
             best_score == rhythm_best(p, song, k - 1)
         IN  IF comparisons > 0
             THEN RatMax(best_score,
                         Rat(rhythm_count(p, song, offset, comparisons), 10 * comparisons))
             ELSE best_score

\* SongRecognitionService._rhythm_match
rhythm_match(p, song) ==
    IF p = <<>> \/ song = <<>> THEN Rat(0, 1)
    ELSE rhythm_best(p, song, Max(1, Len(song) - Len(p) + 1))

\* _sliding_window_match, the inner loop: <<matches, near_matches in halves>>
\* over the first n pairs at an offset
RECURSIVE sliding_count(_, _, _, _)
sliding_count(s1, s2, offset, n) ==
    IF n = 0 THEN <<0, 0>>
    ELSE LET acc == sliding_count(s1, s2, offset, n - 1)
             diff == abs(s1[n] - s2[offset + n])
         IN  IF diff = 0 THEN <<acc[1] + 1, acc[2]>>
             ELSE IF diff <= 1 THEN <<acc[1], acc[2] + 2>>
             ELSE IF diff <= 2 THEN <<acc[1], acc[2] + 1>>
             ELSE acc

sliding_score_mut_weight(m, near_halves, comparisons) ==
    Rat(10 * m + 5 * near_halves, 10 * comparisons)

\* _sliding_window_match, line 562: (matches + near_matches * 0.7) / comparisons
sliding_score(m, near_halves, comparisons) ==
    Rat(20 * m + 7 * near_halves, 20 * comparisons)

\* _sliding_window_match, the outer loop: best score over the first k offsets
RECURSIVE sliding_best(_, _, _)
sliding_best(s1, s2, k) ==
    IF k = 0 THEN Rat(0, 1)
    ELSE LET offset == k - 1
             comparisons == Min(Len(s1), Len(s2) - offset)
             acc == sliding_count(s1, s2, offset, comparisons)
             best_score == sliding_best(s1, s2, k - 1)
         IN  IF comparisons > 0
             THEN RatMax(best_score, sliding_score(acc[1], acc[2], comparisons))
             ELSE best_score

\* SongRecognitionService._sliding_window_match
sliding_window_match(s1, s2) ==
    IF s1 = <<>> \/ s2 = <<>> THEN Rat(0, 1)
    ELSE sliding_best(s1, s2, Max(1, Len(s2) - Len(s1) + 1))

\* _subsequence_match / _start_match, the inner loop: matches (in tenths) over
\* the first n pairs from a start position.  The local `score` of
\* _subsequence_match, which carries the -0.3 penalty, is never read and is
\* left out.
RECURSIVE fuzzy_count(_, _, _, _)
fuzzy_count(p, song, start, n) ==
    IF n = 0 THEN 0
    ELSE LET diff == abs(p[n] - song[start + n])
         IN  fuzzy_count(p, song, start, n - 1)
             + (IF diff = 0 THEN 10
                ELSE IF diff <= 1 THEN 8
                ELSE IF diff <= 2 THEN 5
                ELSE 0)

\* _subsequence_match, the outer loop: best score over the first k starts
RECURSIVE subsequence_best(_, _, _)
subsequence_best(p, song, k) ==
    IF k = 0 THEN Rat(0, 1)
    ELSE LET start == k - 1
             n == Min(Len(p), Len(song) - start)
         IN  RatMax(subsequence_best(p, song, k - 1),
                    Rat(fuzzy_count(p, song, start, n), 10 * Len(p)))

\* SongRecognitionService._subsequence_match
subsequence_match(p, song) ==
    IF p = <<>> \/ song = <<>> THEN Rat(0, 1)
    ELSE subsequence_best(p, song, Len(song))

\* SongRecognitionService._start_match
start_match(p, song) ==
    IF p = <<>> \/ song = <<>> THEN Rat(0, 1)
    ELSE LET comparisons == Min(Len(p), Len(song))
         IN  Rat(fuzzy_count(p, song, 0, comparisons), 10 * comparisons)

\* find_matching_songs, lines 424-433: the intervals of a pattern
song_intervals_of(pattern) ==
    IF pattern.intervals = <<>> /\ pattern.notes # <<>>
    THEN notes_to_intervals(pattern.notes)
    ELSE pattern.intervals

\* find_matching_songs, lines 436-448: the list `scores`
strategy_scores(played_intervals, song_intervals) ==
    <<sliding_window_match(played_intervals, song_intervals),
      subsequence_match(played_intervals, song_intervals),
      RatMul(start_match(played_intervals, song_intervals), start_bonus)>>

\* max(scores) and scores.index(max(scores))
max_score(scores) == RatMax(RatMax(scores[1], scores[2]), scores[3])
max_index_mut_last(scores) == CHOOSE i \in 1..3 :
    /\ scores[i] = RatMax(RatMax(scores[1], scores[2]), scores[3])
    /\ \A j \in (i + 1)..3 : scores[j] # RatMax(RatMax(scores[1], scores[2]), scores[3])
max_index(scores) == CHOOSE i \in 1..3 :
    /\ scores[i] = max_score(scores)
    /\ \A j \in 1..(i - 1) : scores[j] # max_score(scores)
match_types == <<"sliding", "subsequence", "start">>

\* find_matching_songs, lines 415-419: the played rhythm (None when no
\* usable timestamps were given)
played_rhythm_of(times) ==
    IF times # None /\ times[1] # <<>> /\ Len(times[1]) >= 2
    THEN Some(normalize_rhythm(times_to_intervals(times[1])))
    ELSE None

\* find_matching_songs, lines 453-459: the final score of a pattern, and a
\* variant that blends whenever the pattern has rhythm data
final_score_mut_always(pitch_score, played_rhythm, song_rhythm) ==
    IF song_rhythm # <<>>
    THEN RatAdd(RatMul(pitch_score, Rat(rhythm_weight[2] - rhythm_weight[1], rhythm_weight[2])),
                RatMul(rhythm_match(IF played_rhythm = None THEN <<>> ELSE played_rhythm[1],
                                    song_rhythm), rhythm_weight))
    ELSE pitch_score
final_score(pitch_score, played_rhythm, song_rhythm) ==
    IF played_rhythm # None /\ played_rhythm[1] # <<>> /\ song_rhythm # <<>>
    THEN RatAdd(RatMul(pitch_score, Rat(rhythm_weight[2] - rhythm_weight[1], rhythm_weight[2])),
                RatMul(rhythm_match(played_rhythm[1], song_rhythm), rhythm_weight))
    ELSE pitch_score

qualifies_mut_half(final) == ~RatLess(final, Rat(1, 2))

\* find_matching_songs, line 461: final_score >= self.similarity_threshold
qualifies(final) == ~RatLess(final, similarity_threshold)

confidence_of_mut_nocap(final) == round(100 * final[1], final[2])

\* find_matching_songs, line 465: min(round(final_score * 100), 99)
confidence_of(final) == Min(round(100 * final[1], final[2]), confidence_cap)

\* find_matching_songs, lines 423-468: the loop over the first k patterns.
\* title and artist of a pattern are passed through and are left out.
RECURSIVE collect_matches(_, _, _, _)
collect_matches(played_intervals, played_rhythm, patterns, k) ==
    IF k = 0 THEN <<>>
    ELSE LET found == collect_matches(played_intervals, played_rhythm, patterns, k - 1)
             pattern == patterns[k]
             song_intervals == song_intervals_of(pattern)
         IN  IF Len(song_intervals) < 3 THEN found
             ELSE LET scores == strategy_scores(played_intervals, song_intervals)
                      final == final_score(max_score(scores), played_rhythm, pattern.rhythm)
                  IN  IF qualifies(final)
                      THEN Append(found, [song_id |-> pattern.song_id,
                                          confidence |-> confidence_of(final),
                                          match_type |-> match_types[max_index(scores)]])
                      ELSE found

\* list.insert keeping the order of sort(key=confidence, reverse=True): the
\* new entry goes after every entry whose confidence is not smaller.
RECURSIVE insert_sorted(_, _)
insert_sorted(sorted, m) ==
    IF sorted = <<>> THEN <<m>>
    ELSE IF sorted[Len(sorted)].confidence >= m.confidence THEN Append(sorted, m)
    ELSE Append(insert_sorted(SubSeq(sorted, 1, Len(sorted) - 1), m), sorted[Len(sorted)])

sort_matches_mut_unstable(ms, k) ==
    LET RECURSIVE ins(_, _)
        ins(sorted, m) ==
            IF sorted = <<>> THEN <<m>>
            ELSE IF sorted[Len(sorted)].confidence > m.confidence THEN Append(sorted, m)
            ELSE Append(ins(SubSeq(sorted, 1, Len(sorted) - 1), m), sorted[Len(sorted)])
        RECURSIVE go(_)
        go(n) == IF n = 0 THEN <<>> ELSE ins(go(n - 1), ms[n])
    IN  go(k)

\* matches.sort(key=lambda m: m["confidence"], reverse=True): a stable sort
\* of the first k entries
RECURSIVE sort_matches(_, _)
sort_matches(ms, k) ==
    IF k = 0 THEN <<>> ELSE insert_sorted(sort_matches(ms, k - 1), ms[k])

find_matching_songs_mut_min(notes, patterns, times) ==
    IF Len(notes) <= min_notes_for_match THEN <<>>
    ELSE LET found == collect_matches(notes_to_intervals(notes), played_rhythm_of(times),
                                      patterns, Len(patterns))
             sorted == sort_matches(found, Len(found))
         IN  SubSeq(sorted, 1, Min(Len(sorted), max_matches))

\* SongRecognitionService.find_matching_songs
find_matching_songs(notes, patterns, times) ==
    IF Len(notes) < min_notes_for_match THEN <<>>
    ELSE LET found == collect_matches(notes_to_intervals(notes), played_rhythm_of(times),
                                      patterns, Len(patterns))
             sorted == sort_matches(found, Len(found))
         IN  SubSeq(sorted, 1, Min(Len(sorted), max_matches))

\* SongRecognitionService is stateless: no call in progress.
MatcherIdle ==
    /\ played_notes = <<>>
    /\ played_times = None
    /\ song_patterns = <<>>
    /\ matches = None
    /\ seq1 = <<>>
    /\ seq2 = <<>>
    /\ strategy = None

\* No call is in progress, one statement at a time.
ConcIdle ==
    /\ threads = <<>>
    /\ heap = None

\* No call of _normalize_rhythm has been made.
RhythmIdle ==
    /\ time_deltas = <<>>
    /\ rhythms = None

\* sockets/practice.py, line 17: socket_users = {}; no client has connected.
Sockets == {"k1", "k2"}
SocketIdle ==
    /\ socket_users = [k \in Sockets |-> None]
    /\ connections = [k \in Sockets |-> "new"]
    /\ started_over = [s \in SessionIds |-> ""]

\* PracticeSessionService.__init__: no active session.
Init ==
    /\ SessionsIdle
    /\ ScoringIdle
    /\ MatcherIdle
    /\ ConcIdle
    /\ RhythmIdle
    /\ SocketIdle

\* PracticeSessionService.start_session
StartSession(sid, notes) ==
    LET session == ActiveSession(parse_notes(notes))
    IN  /\ sessions' = [sessions EXCEPT ![sid] = Some(session)]
        /\ ret' = [op |-> "start_session", sid |-> sid, args |-> <<>>,
                   result |-> Some(session), row |-> None, raised |-> FALSE]
        /\ UNCHANGED <<scoringVars, matcherVars, strategyVars, concVars, rhythmVars, socketVars>>

\* PracticeSessionService.process_note
ProcessNote(sid, midi_note, velocity, timestamp) ==
    LET session == get(sessions, sid)
        p == NoteEvent(midi_note, velocity, timestamp)
    IN  /\ IF session = None
           THEN /\ sessions' = sessions
                /\ ret' = [op |-> "process_note", sid |-> sid, args |-> <<>>,
                           result |-> None, row |-> None, raised |-> FALSE]
           ELSE /\ SumPlayed(sessions, SessionIds) < MaxPlayed
                /\ sessions' = [sessions EXCEPT ![sid] = Some(process_note(session[1], p))]
                /\ ret' = [op |-> "process_note", sid |-> sid, args |-> <<>>,
                           result |-> Some(evaluate_note(p, expected_at(session[1]))),
                           row |-> None, raised |-> FALSE]
        /\ UNCHANGED <<scoringVars, matcherVars, strategyVars, concVars, rhythmVars, socketVars>>

GetCurrentStats_mut_clamp(sid) ==
    LET session == get(sessions, sid)
    IN  /\ sessions' = IF session = None THEN sessions
                       ELSE [sessions EXCEPT ![sid] =
                                Some([session[1] EXCEPT !.current_note_index =
                                    IF @ > Len(session[1].expected_notes)
                                    THEN Len(session[1].expected_notes) ELSE @])]
        /\ ret' = [op |-> "get_current_stats", sid |-> sid, args |-> <<>>,
                   result |-> IF session = None THEN None
                              ELSE Some(get_current_stats(session[1])),
                   row |-> None, raised |-> FALSE]
        /\ UNCHANGED <<scoringVars, matcherVars, strategyVars, concVars, rhythmVars, socketVars>>

\* PracticeSessionService.get_current_stats
GetCurrentStats(sid) ==
    LET session == get(sessions, sid)
    IN  /\ sessions' = sessions
        /\ ret' = [op |-> "get_current_stats", sid |-> sid, args |-> <<>>,
                   result |-> IF session = None THEN None
                              ELSE Some(get_current_stats(session[1])),
                   row |-> None, raised |-> FALSE]
        /\ UNCHANGED <<scoringVars, matcherVars, strategyVars, concVars, rhythmVars, socketVars>>

EndSession_mut_clear(sid, persisted) ==
    LET session == get(sessions, sid)
    IN  /\ sessions' = [s \in SessionIds |-> None]
        /\ ret' = IF session = None
                  THEN [op |-> "end_session", sid |-> sid, args |-> <<>>,
                        result |-> None, row |-> None, raised |-> FALSE]
                  ELSE IF persisted
                  THEN [op |-> "end_session", sid |-> sid, args |-> <<>>,
                        result |-> Some(final_results(session[1])),
                        row |-> Some(db_session(session[1])), raised |-> FALSE]
                  ELSE [op |-> "end_session", sid |-> sid, args |-> <<>>,
                        result |-> None, row |-> None, raised |-> TRUE]
        /\ UNCHANGED <<scoringVars, matcherVars, strategyVars, concVars, rhythmVars, socketVars>>

\* PracticeSessionService.end_session: the session is popped from the table
\* (line 222), scored, and its row handed to the database.  The database
\* calls (lines 251-263) either succeed or raise; nothing catches the
\* exception, so it leaves end_session in place of the return value and the
\* row is not committed.
EndSession(sid, persisted) ==
    LET session == get(sessions, sid)
    IN  /\ sessions' = [sessions EXCEPT ![sid] = None]
        /\ ret' = IF session = None
                  THEN [op |-> "end_session", sid |-> sid, args |-> <<>>,
                        result |-> None, row |-> None, raised |-> FALSE]
                  ELSE IF persisted
                  THEN [op |-> "end_session", sid |-> sid, args |-> <<>>,
                        result |-> Some(final_results(session[1])),
                        row |-> Some(db_session(session[1])), raised |-> FALSE]
                  ELSE [op |-> "end_session", sid |-> sid, args |-> <<>>,
                        result |-> None, row |-> None, raised |-> TRUE]
        /\ UNCHANGED <<scoringVars, matcherVars, strategyVars, concVars, rhythmVars, socketVars>>

\* PracticeSessionService.update_expected_notes
UpdateExpectedNotes(sid, notes, reset_progress) ==
    LET session == get(sessions, sid)
    IN  /\ sessions' = IF session = None THEN sessions
                       ELSE [sessions EXCEPT ![sid] =
                                Some(update_expected_notes(session[1], notes, reset_progress))]
        /\ ret' = [op |-> "update_expected_notes", sid |-> sid,
                   args |-> <<reset_progress, notes>>,
                   result |-> Some(session # None), row |-> None, raised |-> FALSE]
        /\ UNCHANGED <<scoringVars, matcherVars, strategyVars, concVars, rhythmVars, socketVars>>

Next ==
    \/ \E sid \in SessionIds, notes \in NoteLists : StartSession(sid, notes)
    \/ \E sid \in SessionIds, p \in PlayedNotes :
            ProcessNote(sid, p.midi_note, p.velocity, p.timestamp)
    \/ \E sid \in SessionIds : GetCurrentStats(sid)
    \/ \E sid \in SessionIds, persisted \in BOOLEAN : EndSession(sid, persisted)
    \/ \E sid \in SessionIds, notes \in NoteLists, reset \in BOOLEAN :
            UpdateExpectedNotes(sid, notes, reset)

Spec == Init /\ [][Next]_vars

\* A service on which update_expected_notes is never called.
NextNoUpdate ==
    \/ \E sid \in SessionIds, notes \in NoteLists : StartSession(sid, notes)
    \/ \E sid \in SessionIds, p \in PlayedNotes :
            ProcessNote(sid, p.midi_note, p.velocity, p.timestamp)
    \/ \E sid \in SessionIds : GetCurrentStats(sid)
    \/ \E sid \in SessionIds, persisted \in BOOLEAN : EndSession(sid, persisted)

SpecNoUpdate == Init /\ [][NextNoUpdate]_vars

(***************************************************************************)
(* ScoringService.evaluate_note as a pure function: the arguments are      *)
(* drawn by InitEval, the call is EvaluateNote.                            *)
(***************************************************************************)
EvalPitches == {60, 62}
EvalStarts == {0, 200, 500}

InitEval ==
    /\ SessionsIdle
    /\ played \in { NoteEvent(m, 100, t) : m \in EvalPitches, t \in 0..MaxTimestamp }
    /\ expected \in {None} \cup
            { Some(ExpectedNote(m, t, DEFAULT_DURATION)) : m \in EvalPitches, t \in EvalStarts }
    /\ feedback = None
    /\ counts = <<0, 0, 0, 0>>
    /\ score = None
    /\ MatcherIdle
    /\ ConcIdle
    /\ RhythmIdle
    /\ SocketIdle

EvaluateNote ==
    /\ feedback = None
    /\ feedback' = Some(evaluate_note(played, expected))
    /\ UNCHANGED <<sessionVars, played, expected, counts, score, matcherVars, strategyVars, concVars, rhythmVars, socketVars>>

SpecEval == InitEval /\ [][EvaluateNote]_vars

(***************************************************************************)
(* ScoringService.calculate_session_score as a pure function.              *)
(***************************************************************************)
InitScore ==
    /\ SessionsIdle
    /\ played = NoteEvent(0, 0, 0)
    /\ expected = None
    /\ feedback = None
    /\ counts \in (0..MaxCount) \X (0..MaxCount) \X (0..MaxCount) \X (0..MaxCount)
    /\ score = None
    /\ MatcherIdle
    /\ ConcIdle
    /\ RhythmIdle
    /\ SocketIdle

CalculateSessionScore ==
    /\ score = None
    /\ score' = Some(calculate_session_score(counts[1], counts[2], counts[3], counts[4]))
    /\ UNCHANGED <<sessionVars, played, expected, feedback, counts, matcherVars, strategyVars, concVars, rhythmVars, socketVars>>

SpecScore == InitScore /\ [][CalculateSessionScore]_vars

(***************************************************************************)
(* The song matcher on its own: find_matching_songs applied to played      *)
(* notes, optional timestamps and a catalog of song patterns.              *)
(***************************************************************************)
\* Semitone steps between consecutive notes: differences 0, 1, 2 and 3 occur.
Intervals == {0, 1, 3}
BaseNote == 60

RECURSIVE SeqsUpTo(_, _)
SeqsUpTo(S, n) ==
    IF n = 0 THEN {<<>>}
    ELSE LET shorter == SeqsUpTo(S, n - 1)
         IN  shorter \cup {Append(q, x) : q \in {r \in shorter : Len(r) = n - 1}, x \in S}

\* The notes that start at `first` and move by the given intervals.
RECURSIVE notes_from(_, _)
notes_from(first, ivs) ==
    IF ivs = <<>> THEN <<first>>
    ELSE LET before == notes_from(first, SubSeq(ivs, 1, Len(ivs) - 1))
         IN  Append(before, before[Len(before)] + ivs[Len(ivs)])

PlayedSequences ==
    {<<>>} \cup {notes_from(BaseNote, ivs) : ivs \in SeqsUpTo(Intervals, MaxPlayedNotes - 1)}

\* Timestamps in ms: none given, or one per note at a steady gap.
Gaps == {100, 300, 1200}
steady_times(n, gap) == [i \in 1..n |-> (i - 1) * gap]
PlayedTimes(notes) ==
    {None, Some(<<0>>)} \cup {Some(steady_times(Len(notes), gap)) : gap \in Gaps}

\* A pattern dict of the catalog; a missing key is the empty list that
\* pattern.get(key, []) yields.
Pattern(id, intervals, notes, rhythm) ==
    [song_id |-> id, intervals |-> intervals, notes |-> notes, rhythm |-> rhythm]

Pool ==
    << Pattern(1, <<0, 1, 3>>, <<>>, <<"S", "S", "S">>),
       Pattern(2, <<>>, <<62, 62, 63, 66>>, <<>>),
       Pattern(3, <<0, 1, 3, 0>>, <<>>, <<>>),
       Pattern(4, <<1, 1, 3>>, <<>>, <<"S", "M", "L">>),
       Pattern(5, <<0, 1, 1>>, <<>>, <<>>),
       Pattern(6, <<3, 3>>, <<>>, <<>>),
       Pattern(7, <<3, 0, 1, 3>>, <<>>, <<>>),
       Pattern(8, <<0, 0, 3>>, <<>>, <<"L", "L", "L">>),
       Pattern(9, <<3, 3, 0>>, <<>>, <<>>) >>

Reverse(q) == [i \in 1..Len(q) |-> q[Len(q) + 1 - i]]
Catalogs ==
    {SubSeq(Pool, 1, n) : n \in 0..Len(Pool)}
    \cup {SubSeq(Reverse(Pool), 1, n) : n \in 0..Len(Pool)}

InitMatch ==
    /\ SessionsIdle
    /\ ScoringIdle
    /\ ConcIdle
    /\ RhythmIdle
    /\ SocketIdle
    /\ played_notes \in PlayedSequences
    /\ played_times \in PlayedTimes(played_notes)
    /\ song_patterns \in Catalogs
    /\ matches = None
    /\ seq1 = <<>>
    /\ seq2 = <<>>
    /\ strategy = None

\* One call of find_matching_songs(played_notes, song_patterns, played_times).
FindMatchingSongs ==
    /\ matches = None
    /\ matches' = Some(find_matching_songs(played_notes, song_patterns, played_times))
    /\ UNCHANGED <<played_notes, played_times, song_patterns>>
    /\ UNCHANGED <<sessionVars, scoringVars, strategyVars, concVars, rhythmVars, socketVars>>

SpecMatch == InitMatch /\ [][FindMatchingSongs]_vars

(***************************************************************************)
(* The three matching strategies on their own, applied to two interval     *)
(* sequences.                                                              *)
(***************************************************************************)
IntervalSequences == SeqsUpTo(Intervals, MaxIntervals)

InitStrategy ==
    /\ SessionsIdle
    /\ ScoringIdle
    /\ ConcIdle
    /\ RhythmIdle
    /\ SocketIdle
    /\ played_notes = <<>>
    /\ played_times = None
    /\ song_patterns = <<>>
    /\ matches = None
    /\ seq1 \in IntervalSequences
    /\ seq2 \in IntervalSequences
    /\ strategy = None

\* One call each of _sliding_window_match, _subsequence_match, _start_match.
MatchStrategies ==
    /\ strategy = None
    /\ strategy' = Some([sliding |-> sliding_window_match(seq1, seq2),
                         subsequence |-> subsequence_match(seq1, seq2),
                         start |-> start_match(seq1, seq2)])
    /\ UNCHANGED <<seq1, seq2>>
    /\ UNCHANGED <<sessionVars, scoringVars, matcherVars, concVars, rhythmVars, socketVars>>

SpecStrategy == InitStrategy /\ [][MatchStrategies]_vars

(***************************************************************************)
(* The two rhythm bucketings.  AudioAnalysisService._normalize_rhythm      *)
(* builds the rhythm field of a catalog pattern (extract_melody_pattern,   *)
(* line 344); SongRecognitionService._normalize_rhythm (normalize_rhythm   *)
(* above) buckets the played side.  One call of each on the same list of   *)
(* inter-onset deltas.                                                     *)
(***************************************************************************)
MaxDeltas == 2

audio_rhythm_category_mut_le(interval) ==
    IF interval <= 200 THEN "S"
    ELSE IF interval < 500 THEN "M"
    ELSE IF interval < 1000 THEN "L"
    ELSE "X"
\* AudioAnalysisService._normalize_rhythm, lines 370-377: one interval
audio_rhythm_category(interval) ==
    IF interval < 200 THEN "S"
    ELSE IF interval < 500 THEN "M"
    ELSE IF interval < 1000 THEN "L"
    ELSE "X"

\* AudioAnalysisService._normalize_rhythm
audio_normalize_rhythm(intervals) ==
    IF intervals = <<>> THEN <<>>
    ELSE [i \in 1..Len(intervals) |-> audio_rhythm_category(intervals[i])]

\* Deltas on both sides of every threshold; a negative delta is what
\* _times_to_intervals yields for timestamps out of order.
Deltas == {-5, 0, 199, 200, 499, 500, 999, 1000, 1500}
DeltaSequences == SeqsUpTo(Deltas, MaxDeltas)

InitRhythm ==
    /\ SessionsIdle
    /\ ScoringIdle
    /\ MatcherIdle
    /\ ConcIdle
    /\ SocketIdle
    /\ time_deltas \in DeltaSequences
    /\ rhythms = None

NormalizeRhythm ==
    /\ rhythms = None
    /\ rhythms' = Some([catalog |-> audio_normalize_rhythm(time_deltas),
                        played |-> normalize_rhythm(time_deltas)])
    /\ UNCHANGED time_deltas
    /\ UNCHANGED <<sessionVars, scoringVars, matcherVars, strategyVars, concVars, socketVars>>

SpecRhythm == InitRhythm /\ [][NormalizeRhythm]_vars

(***************************************************************************)
(* Calls on one session in progress at the same time.  The service holds   *)
(* no lock: process_note and end_session are sequences of reads and writes *)
(* of the session table and of the session object, and each `x += d` is a  *)
(* read followed by a write.  A call keeps its reference to the session    *)
(* object after end_session has popped it from the table.                  *)
(***************************************************************************)
ConcSession == "s1"
ThreadIds == {1, 2}

\* A call of process_note(session_id, midi_note, velocity, timestamp) about
\* to run line 139, and a call of end_session(session_id) about to run
\* line 222, with their local variables.
ProcessNoteCall(p) ==
    [op |-> "process_note", pc |-> "get", played |-> Some(p), expected |-> None,
     feedback |-> None, todo |-> <<>>, tmp |-> 0,
     final_results |-> None, row |-> None, result |-> None, raised |-> FALSE]
EndSessionCall ==
    [op |-> "end_session", pc |-> "pop", played |-> None, expected |-> None,
     feedback |-> None, todo |-> <<>>, tmp |-> 0,
     final_results |-> None, row |-> None, result |-> None, raised |-> FALSE]

\* process_note, lines 165-176: the fields the call increments, in order.
fields_to_update(fb) ==
    <<"notes_played">>
    \o (IF fb.feedback_type = CORRECT THEN <<"notes_correct", "current_note_index">>
        ELSE IF fb.feedback_type \in {EARLY, LATE}
             THEN <<"timing_errors", "current_note_index">>
        ELSE <<"notes_wrong">>)
    \o <<"current_score">>

\* The right-hand side of the `+=` on a field.
increment(field, fb) == IF field = "current_score" THEN fb.score_delta ELSE 1

\* A write to the session object; the table entry is the same object.
write_session(session) ==
    /\ heap' = Some(session)
    /\ sessions' = IF sessions[ConcSession] = None THEN sessions
                   ELSE [sessions EXCEPT ![ConcSession] = Some(session)]

InitConc ==
    /\ sessions = [s \in SessionIds |->
                     IF s = ConcSession
                     THEN Some(ActiveSession(parse_notes(NoteDicts(MaxNotes))))
                     ELSE None]
    /\ ret = NoCall
    /\ ScoringIdle
    /\ MatcherIdle
    /\ RhythmIdle
    /\ SocketIdle
    /\ heap = Some(ActiveSession(parse_notes(NoteDicts(MaxNotes))))
    /\ threads \in {<<ProcessNoteCall(p), c>> :
                       p \in PlayedNotes,
                       c \in {ProcessNoteCall(q) : q \in PlayedNotes} \cup {EndSessionCall}}

ConcFrame == UNCHANGED <<ret, scoringVars, matcherVars, strategyVars, rhythmVars, socketVars>>

\* process_note, lines 139-141: session = self._active_sessions.get(...)
PN_Get(t) ==
    /\ threads[t].op = "process_note" /\ threads[t].pc = "get"
    /\ threads' = [threads EXCEPT ![t].pc =
                      IF sessions[ConcSession] = None THEN "done" ELSE "evaluate"]
    /\ UNCHANGED <<sessions, heap>>
    /\ ConcFrame

\* process_note, lines 150-162: the expected note at the cursor and the
\* feedback.
PN_Evaluate(t) ==
    /\ threads[t].pc = "evaluate"
    /\ LET e == expected_at(heap[1])
           fb == evaluate_note(threads[t].played[1], e)
       IN  threads' = [threads EXCEPT ![t].expected = e,
                                      ![t].feedback = Some(fb),
                                      ![t].todo = fields_to_update(fb),
                                      ![t].pc = "load"]
    /\ UNCHANGED <<sessions, heap>>
    /\ ConcFrame

\* process_note, lines 165-176: the read of `session.field += d`.
PN_Load(t) ==
    /\ threads[t].pc = "load"
    /\ threads' = [threads EXCEPT ![t].tmp = heap[1][Head(threads[t].todo)],
                                  ![t].pc = "store"]
    /\ UNCHANGED <<sessions, heap>>
    /\ ConcFrame

\* process_note, lines 165-176: the write of `session.field += d`.
PN_Store(t) ==
    /\ threads[t].pc = "store"
    /\ LET field == Head(threads[t].todo)
           rest == Tail(threads[t].todo)
       IN  /\ write_session([heap[1] EXCEPT
                   ![field] = threads[t].tmp + increment(field, threads[t].feedback[1])])
           /\ threads' = [threads EXCEPT ![t].todo = rest,
                                         ![t].tmp = 0,
                                         ![t].pc = IF rest = <<>> THEN "append" ELSE "load"]
    /\ ConcFrame

\* process_note, lines 178-188: session.events.append(...) and return feedback.
PN_Append(t) ==
    /\ threads[t].pc = "append"
    /\ write_session(log_event(heap[1], threads[t].played[1], threads[t].expected,
                               threads[t].feedback[1]))
    /\ threads' = [threads EXCEPT ![t].result = threads[t].feedback, ![t].pc = "done"]
    /\ ConcFrame

\* end_session, lines 222-224: session = self._active_sessions.pop(...)
ES_Pop(t) ==
    /\ threads[t].op = "end_session" /\ threads[t].pc = "pop"
    /\ sessions' = [sessions EXCEPT ![ConcSession] = None]
    /\ threads' = [threads EXCEPT ![t].pc =
                      IF sessions[ConcSession] = None THEN "done" ELSE "score"]
    /\ UNCHANGED heap
    /\ ConcFrame

\* end_session, lines 226-233: the final score from the session's counts.
ES_Score(t) ==
    /\ threads[t].pc = "score"
    /\ threads' = [threads EXCEPT ![t].final_results = Some(final_results(heap[1])),
                                  ![t].pc = "row"]
    /\ UNCHANGED <<sessions, heap>>
    /\ ConcFrame

\* end_session, lines 236-249: the PracticeSession row.
ES_Row(t) ==
    /\ threads[t].pc = "row"
    /\ threads' = [threads EXCEPT ![t].row = Some(db_session(heap[1])),
                                  ![t].pc = "commit"]
    /\ UNCHANGED <<sessions, heap>>
    /\ ConcFrame

\* end_session, lines 251-269: the database calls, then the return; an
\* exception of the database leaves the call without a result.
ES_Commit(t, persisted) ==
    /\ threads[t].pc = "commit"
    /\ threads' = [threads EXCEPT
                      ![t].result = IF persisted THEN threads[t].final_results ELSE None,
                      ![t].raised = ~persisted,
                      ![t].pc = "done"]
    /\ UNCHANGED <<sessions, heap>>
    /\ ConcFrame

NextConc ==
    \/ \E t \in ThreadIds : PN_Get(t)
    \/ \E t \in ThreadIds : PN_Evaluate(t)
    \/ \E t \in ThreadIds : PN_Load(t)
    \/ \E t \in ThreadIds : PN_Store(t)
    \/ \E t \in ThreadIds : PN_Append(t)
    \/ \E t \in ThreadIds : ES_Pop(t)
    \/ \E t \in ThreadIds : ES_Score(t)
    \/ \E t \in ThreadIds : ES_Row(t)
    \/ \E t \in ThreadIds, persisted \in BOOLEAN : ES_Commit(t, persisted)

SpecConc == InitConc /\ [][NextConc]_vars

(***************************************************************************)
(* sockets/practice.py: the Socket.IO handlers in front of the service.    *)
(* A client connects (the server gives the connection a socket id that is  *)
(* never given again), sends events, and disconnects.  The handlers keep   *)
(* socket_users and call the service, whose table is `sessions`.  What a   *)
(* handler emits to the client is left out; `ret` records only calls made  *)
(* on the service directly and stays as it is.                             *)
(***************************************************************************)
\* The token of an authenticate event: none, one that decode_token
\* rejects, or a valid token of user "u1".
Tokens == {"", "invalid", "u1"}

\* decode_token(token).get("sub"); None stands for the exception raised
decode_token(token) == IF token = "invalid" THEN None ELSE Some(token)

\* The dict stored in socket_users (lines 56-59)
user_data(user_id, session_id) == [user_id |-> user_id, session_id |-> session_id]

\* user_data and user_data.get("session_id")
current_session(k) ==
    IF socket_users[k] = None THEN None ELSE socket_users[k][1].session_id

SocketFrame == UNCHANGED <<ret, scoringVars, matcherVars, strategyVars, concVars, rhythmVars>>

\* handle_connect
handle_connect(k) ==
    /\ connections[k] = "new"
    /\ connections' = [connections EXCEPT ![k] = "open"]
    /\ UNCHANGED <<sessions, socket_users, started_over>>
    /\ SocketFrame

\* handle_disconnect: the entry is popped, and the session it names is
\* ended; end_session pops the session from the table whether or not the
\* database write that follows succeeds.
handle_disconnect(k) ==
    /\ connections[k] = "open"
    /\ connections' = [connections EXCEPT ![k] = "closed"]
    /\ socket_users' = [socket_users EXCEPT ![k] = None]
    /\ sessions' = IF current_session(k) # None
                   THEN [sessions EXCEPT ![current_session(k)[1]] = None]
                   ELSE sessions
    /\ UNCHANGED started_over
    /\ SocketFrame

\* handle_authenticate
handle_authenticate(k, token) ==
    /\ connections[k] = "open"
    /\ socket_users' =
           IF token = "" \/ decode_token(token) = None THEN socket_users
           ELSE [socket_users EXCEPT ![k] = Some(user_data(decode_token(token)[1], None))]
    /\ UNCHANGED <<sessions, connections, started_over>>
    /\ SocketFrame

\* handle_start_session; session_id is the uuid4 drawn at line 91, an id no
\* session has had before.
handle_start_session(k, session_id, notes) ==
    /\ connections[k] = "open"
    /\ started_over[session_id] = ""
    /\ IF socket_users[k] = None
       THEN UNCHANGED <<sessions, socket_users, started_over>>
       ELSE /\ sessions' = [sessions EXCEPT ![session_id] =
                               Some(ActiveSession(parse_notes(notes)))]
            /\ socket_users' = [socket_users EXCEPT ![k] =
                                   Some([@[1] EXCEPT !.session_id = Some(session_id)])]
            /\ started_over' = [started_over EXCEPT ![session_id] = k]
    /\ UNCHANGED connections
    /\ SocketFrame

\* handle_note_played: process_note, then get_current_stats
handle_note_played(k, p) ==
    /\ connections[k] = "open"
    /\ IF current_session(k) = None \/ get(sessions, current_session(k)[1]) = None
       THEN sessions' = sessions
       ELSE /\ SumPlayed(sessions, SessionIds) < MaxPlayed
            /\ sessions' = [sessions EXCEPT ![current_session(k)[1]] =
                               Some(process_note(@[1], p))]
    /\ UNCHANGED <<socket_users, connections, started_over>>
    /\ SocketFrame

\* handle_update_notes
handle_update_notes(k, notes, reset_progress) ==
    /\ connections[k] = "open"
    /\ sessions' =
           IF current_session(k) = None \/ get(sessions, current_session(k)[1]) = None
           THEN sessions
           ELSE [sessions EXCEPT ![current_session(k)[1]] =
                    Some(update_expected_notes(@[1], notes, reset_progress))]
    /\ UNCHANGED <<socket_users, connections, started_over>>
    /\ SocketFrame

\* handle_get_stats
handle_get_stats(k) ==
    /\ connections[k] = "open"
    /\ UNCHANGED <<sessions, socket_users, connections, started_over>>
    /\ SocketFrame

\* handle_end_session: end_session pops the session, then either returns
\* the results (the entry's session_id is cleared) or returns None for a
\* session not in the table or raises out of the database write (the entry
\* keeps its session_id).
handle_end_session(k, persisted) ==
    /\ connections[k] = "open"
    /\ IF current_session(k) = None
       THEN UNCHANGED <<sessions, socket_users>>
       ELSE /\ sessions' = [sessions EXCEPT ![current_session(k)[1]] = None]
            /\ socket_users' =
                   IF get(sessions, current_session(k)[1]) # None /\ persisted
                   THEN [socket_users EXCEPT ![k] =
                            Some([@[1] EXCEPT !.session_id = None])]
                   ELSE socket_users
    /\ UNCHANGED <<connections, started_over>>
    /\ SocketFrame

InitSocket ==
    /\ SessionsIdle
    /\ ScoringIdle
    /\ MatcherIdle
    /\ ConcIdle
    /\ RhythmIdle
    /\ SocketIdle

NextSocket ==
    \/ \E k \in Sockets : handle_connect(k)
    \/ \E k \in Sockets : handle_disconnect(k)
    \/ \E k \in Sockets, token \in Tokens : handle_authenticate(k, token)
    \/ \E k \in Sockets, session_id \in SessionIds, notes \in NoteLists :
            handle_start_session(k, session_id, notes)
    \/ \E k \in Sockets, p \in PlayedNotes : handle_note_played(k, p)
    \/ \E k \in Sockets, notes \in NoteLists, reset \in BOOLEAN :
            handle_update_notes(k, notes, reset)
    \/ \E k \in Sockets : handle_get_stats(k)
    \/ \E k \in Sockets, persisted \in BOOLEAN : handle_end_session(k, persisted)

SpecSocket == InitSocket /\ [][NextSocket]_vars

(***************************************************************************)
(* Properties of the session manager (specification Spec).                 *)
(***************************************************************************)
Live(s) == sessions[s] # None
Session(s) == sessions[s][1]
Cursor(s) == sessions[s][1].current_note_index

\* C1 (as stated): within one session every processNote, getStats and
\* updateExpectedNotes step, with any resetProgress value, leaves the cursor
\* equal to or greater than its previous value.
C1_CursorNeverDecreases ==
    [][\A s \in SessionIds :
        (/\ sessions[s] # None
         /\ sessions'[s] # None
         /\ ret'.op \in {"process_note", "get_current_stats", "update_expected_notes"})
        => sessions'[s][1].current_note_index >= sessions[s][1].current_note_index]_vars

\* C1 (amended): within one session the cursor never decreases on processNote,
\* getStats and updateExpectedNotes with resetProgress = false;
\* updateExpectedNotes with resetProgress = true sets the cursor to 0.
C1_CursorNeverDecreasesUnlessReset ==
    [][\A s \in SessionIds :
        (/\ sessions[s] # None
         /\ sessions'[s] # None
         /\ ret'.op \in {"process_note", "get_current_stats", "update_expected_notes"})
        => IF ret'.op = "update_expected_notes" /\ ret'.sid = s /\ ret'.args[1]
           THEN sessions'[s][1].current_note_index = 0
           ELSE sessions'[s][1].current_note_index >= sessions[s][1].current_note_index]_vars

\* C1 witness: updateExpectedNotes without reset has acted on a session whose
\* cursor had advanced, and the cursor is still past the start.
C1_Witness ==
    \E s \in SessionIds :
        /\ Live(s)
        /\ ret.op = "update_expected_notes" /\ ret.sid = s /\ ret.args[1] = FALSE
        /\ Cursor(s) >= 1
        /\ Cursor(s) > Len(Session(s).expected_notes)

\* C2: processNote on an active session advances the cursor by exactly 1 if
\* and only if the returned feedback is correct, early or late; with any
\* other feedback (wrong note, or no expected note at the cursor) the cursor
\* is unchanged.
C2_AdvanceIffRightNote ==
    [][(ret'.op = "process_note" /\ sessions[ret'.sid] # None)
        => LET s == ret'.sid
               fb == ret'.result[1]
           IN  /\ ret'.result # None
               /\ sessions'[s] # None
               /\ sessions'[s][1].current_note_index =
                    sessions[s][1].current_note_index
                    + (IF fb.feedback_type \in {CORRECT, EARLY, LATE} THEN 1 ELSE 0)]_vars

\* C2 witness: a processNote returned "early" and moved the cursor to 2.
C2_Witness ==
    \E s \in SessionIds :
        /\ Live(s)
        /\ ret.op = "process_note" /\ ret.sid = s /\ ret.result # None
        /\ ret.result[1].feedback_type = EARLY
        /\ Cursor(s) = 2

\* C3: start on a sessionId that is already in the active-session table fails:
\* the existing session (expected notes, cursor, counts, running score, event
\* log) is not overwritten or reset.
C3_StartKeepsExistingSession ==
    [][(ret'.op = "start_session" /\ sessions[ret'.sid] # None)
        => sessions'[ret'.sid] = sessions[ret'.sid]]_vars

\* C4: every operation on a sessionId that is not in the active-session table
\* (never started, or already ended) returns the not-found outcome (absent for
\* processNote, getStats and end, false for updateExpectedNotes) and leaves
\* the table, hence every other session, unchanged; an end that directly
\* follows an end on the same sessionId returns absent.
C4_UnknownSessionNotFound ==
    [][/\ (/\ ret'.op \in {"process_note", "get_current_stats", "end_session",
                           "update_expected_notes"}
           /\ sessions[ret'.sid] = None)
          => /\ sessions' = sessions
             /\ IF ret'.op = "update_expected_notes"
                THEN ret'.result = Some(FALSE)
                ELSE ret'.result = None
             /\ ret'.row = None
       /\ (ret.op = "end_session" /\ ret'.op = "end_session" /\ ret'.sid = ret.sid)
          => ret'.result = None]_vars

\* C4 witness: an end on a sessionId that is not in the table returned absent
\* while the other session is live with notes played.
C4_Witness ==
    \E s, o \in SessionIds :
        /\ s # o
        /\ ret.op = "end_session" /\ ret.sid = s /\ ret.result = None
        /\ ~Live(s)
        /\ Live(o) /\ Session(o).notes_played >= 1

\* C5: getStats does not mutate state: a getStats step leaves the active
\* session table (every session's expected notes, cursor, counts, running
\* score and event log) unchanged, and two consecutive getStats calls on a
\* session return the same snapshot.
C5_GetStatsReadOnly ==
    [][/\ (ret'.op = "get_current_stats") => sessions' = sessions
       /\ (ret.op = "get_current_stats" /\ ret'.op = "get_current_stats"
            /\ ret'.sid = ret.sid)
          => ret'.result = ret.result]_vars

\* C5 witness: getStats returned the snapshot of a session with notes played
\* whose cursor is past the end of its expected notes.
C5_Witness ==
    \E s \in SessionIds :
        /\ Live(s)
        /\ ret.op = "get_current_stats" /\ ret.sid = s /\ ret.result # None
        /\ ret.result[1].notesPlayed >= 1
        /\ ret.result[1].currentNoteIndex > ret.result[1].totalNotes

\* The calls that keep a session: the same object before and after.
KeptBy(s) ==
    /\ sessions[s] # None
    /\ sessions'[s] # None
    /\ ret'.op \in {"process_note", "get_current_stats", "update_expected_notes"}

\* C26: in every state of an active session notesPlayed = notesCorrect +
\* notesWrong + timingErrors and the event log has notesPlayed entries, in
\* the order the notes were processed: processNote appends the entry of its
\* note after the entries already there, and no other call touches the log.
C26_EventLogCountsNotes ==
    /\ [](\A s \in SessionIds :
            Live(s) =>
                /\ Session(s).notes_played =
                       Session(s).notes_correct + Session(s).notes_wrong
                           + Session(s).timing_errors
                /\ Len(Session(s).events) = Session(s).notes_played)
    /\ [][\A s \in SessionIds :
            KeptBy(s) =>
                IF ret'.op = "process_note" /\ ret'.sid = s
                THEN /\ Len(sessions'[s][1].events) = Len(sessions[s][1].events) + 1
                     /\ SubSeq(sessions'[s][1].events, 1, Len(sessions[s][1].events))
                            = sessions[s][1].events
                     /\ sessions'[s][1].events[Len(sessions'[s][1].events)].feedback
                            = ret'.result[1].feedback_type
                ELSE sessions'[s][1].events = sessions[s][1].events]_vars

\* C26 witness: processNote has just logged a second event that differs from
\* the first one.
C26_Witness ==
    \E s \in SessionIds :
        /\ Live(s)
        /\ ret.op = "process_note" /\ ret.sid = s
        /\ Len(Session(s).events) = 2
        /\ Session(s).events[1] # Session(s).events[2]
        /\ Session(s).notes_wrong = 1

\* C27: in every state of an active session the running score is
\* 10 * notesCorrect + 5 * timingErrors; it never decreases, and
\* updateExpectedNotes and getStats do not change it.
C27_RunningScore ==
    /\ [](\A s \in SessionIds :
            Live(s) =>
                Session(s).current_score =
                    10 * Session(s).notes_correct + 5 * Session(s).timing_errors)
    /\ [][\A s \in SessionIds :
            KeptBy(s) =>
                /\ sessions'[s][1].current_score >= sessions[s][1].current_score
                /\ ret'.op \in {"get_current_stats", "update_expected_notes"}
                       => sessions'[s][1].current_score = sessions[s][1].current_score]_vars

\* C27 witness: updateExpectedNotes with reset has acted on a session that
\* had one correct note and one timing error.
C27_Witness ==
    \E s \in SessionIds :
        /\ Live(s)
        /\ ret.op = "update_expected_notes" /\ ret.sid = s /\ ret.args[1] = TRUE
        /\ Session(s).notes_correct = 1
        /\ Session(s).timing_errors = 1
        /\ Session(s).current_score = 15

\* C28: in a session on which updateExpectedNotes is never called the cursor
\* is notesCorrect + timingErrors and lies within 0..totalNotes, so the
\* progress getStats reports is within 0..100 and is 100 exactly when
\* cursor = totalNotes > 0.
C28_CursorWithinTotal ==
    /\ \A s \in SessionIds :
           Live(s) =>
               /\ Cursor(s) = Session(s).notes_correct + Session(s).timing_errors
               /\ 0 <= Cursor(s)
               /\ Cursor(s) <= Len(Session(s).expected_notes)
    /\ (ret.op = "get_current_stats" /\ ret.result # None) =>
           /\ ret.result[1].progress \in 0..100
           /\ (ret.result[1].progress = 100) <=>
                  (/\ ret.result[1].currentNoteIndex = ret.result[1].totalNotes
                   /\ ret.result[1].totalNotes > 0)

\* C28 witness: getStats reports 100 for a session that has played its whole
\* list and then one note more.
C28_Witness ==
    \E s \in SessionIds :
        /\ Live(s)
        /\ ret.op = "get_current_stats" /\ ret.sid = s
        /\ ret.result[1].progress = 100
        /\ Session(s).notes_played > Len(Session(s).expected_notes)

\* C28 witness: getStats reports a progress strictly between 0 and 100.
C28_WitnessHalfway ==
    /\ ret.op = "get_current_stats"
    /\ ret.result # None
    /\ ret.result[1].progress = 50

\* C29: the overallScore and the accuracy of the summary that end returns
\* are within 0..100, whatever processNote and updateExpectedNotes calls
\* came before.
C29_SummaryWithinRange ==
    (ret.op = "end_session" /\ ret.result # None) =>
        /\ ret.result[1].overallScore \in 0..100
        /\ ret.result[1].accuracy \in 0..100

\* C30: when end persists a session, the final_score of the stored row is
\* the overallScore of the summary returned to the caller.
C30_StoredScoreIsOverallScore ==
    (ret.op = "end_session" /\ ret.result # None /\ ret.row # None) =>
        ret.row[1].final_score = ret.result[1].overallScore

(***************************************************************************)
(* Properties of evaluate_note (specification SpecEval).                   *)
(***************************************************************************)
Evaluated == feedback # None
TimingDelta == played.timestamp - expected[1].start_time

\* C6: evaluateNote called with no expected note returns feedback of a kind
\* other than WrongNote (the kind "extra") with scoreDelta 0, for every played
\* pitch and timestamp.
C6_NoExpectedGivesExtra ==
    (Evaluated /\ expected = None)
        => /\ feedback[1].feedback_type # WRONG_NOTE
           /\ feedback[1].score_delta = 0

\* C7: for a played note whose pitch equals the expected pitch, with
\* timingDelta = played.timestamp - expected.startTime: the feedback is
\* correct with scoreDelta 10 when |timingDelta| <= tolerance, early with
\* scoreDelta 5 when timingDelta < -tolerance, late with scoreDelta 5 when
\* timingDelta > tolerance; timingDeltaMs equals timingDelta.
C7_RightPitchByTiming ==
    (Evaluated /\ expected # None /\ played.midi_note = expected[1].midi_note)
        => LET fb == feedback[1]
               d == TimingDelta
           IN  /\ fb.timing_diff_ms = d
               /\ fb.feedback_type \in {CORRECT, EARLY, LATE}
               /\ (d >= -150 /\ d <= 150)
                    => (fb.feedback_type = CORRECT /\ fb.score_delta = 10)
               /\ d < -150 => (fb.feedback_type = EARLY /\ fb.score_delta = 5)
               /\ d > 150 => (fb.feedback_type = LATE /\ fb.score_delta = 5)

\* C7 witness: the right pitch played exactly 150 ms late was judged correct
\* (the boundary of the tolerance window).
C7_Witness ==
    /\ Evaluated /\ expected # None
    /\ played.midi_note = expected[1].midi_note
    /\ TimingDelta = 150
    /\ feedback[1].feedback_type = CORRECT

\* C8: for a played note whose pitch differs from the expected pitch the
\* feedback is wrong-note with scoreDelta 0 and carries the expected pitch,
\* whatever the timing difference.
C8_WrongPitchIsWrongNote ==
    (Evaluated /\ expected # None /\ played.midi_note # expected[1].midi_note)
        => /\ feedback[1].feedback_type = WRONG_NOTE
           /\ feedback[1].score_delta = 0
           /\ feedback[1].expected_note = Some(expected[1].midi_note)
           /\ feedback[1].message[1] = "Wrong note (expected"

\* C8 witness: a wrong pitch played exactly on time was judged a wrong note.
C8_Witness ==
    /\ Evaluated /\ expected # None
    /\ played.midi_note # expected[1].midi_note
    /\ TimingDelta = 0
    /\ feedback[1].feedback_type = WRONG_NOTE

(***************************************************************************)
(* Properties of calculate_session_score (specification SpecScore).        *)
(***************************************************************************)
Scored == score # None

\* C9: calculateSessionScore never divides by zero: with totalExpected = 0 it
\* returns overall 0 and grade "N/A" for any correct, timingErrors and
\* wrongNotes, and with totalExpected > 0 and no attempts it returns timing
\* score 0.
C9_NoDivisionByZero ==
    Scored
        => /\ counts[4] = 0
                => (score[1].overallScore = 0 /\ score[1].grade = "N/A")
           /\ (counts[4] > 0 /\ counts[1] + counts[2] + counts[3] = 0)
                => score[1].timing = 0

\* C9 witness: a score was computed for totalExpected = 0 with notes of every
\* kind counted.
C9_Witness ==
    /\ Scored
    /\ counts[4] = 0
    /\ counts[1] > 0 /\ counts[2] > 0 /\ counts[3] > 0
    /\ score[1].grade = "N/A"

\* C9, in a session (specification Spec): end on a session whose expected-note
\* list is empty returns overall 0 and grade "N/A" however many notes were
\* played, and end on a session with no note played returns timing 0.
C9_EndOnEmptyTutorial ==
    [][(ret'.op = "end_session" /\ sessions[ret'.sid] # None /\ ~ret'.raised)
        => LET session == sessions[ret'.sid][1]
               res == ret'.result[1]
           IN  /\ Len(session.expected_notes) = 0
                    => (res.overallScore = 0 /\ res.grade = "N/A")
               /\ session.notes_played = 0 => res.timing = 0]_vars

\* The band of an integer score: >= 90 A+, >= 80 A, >= 70 B, >= 60 C, >= 50 D.
ScoreBand(n) ==
    IF n >= 90 THEN "A+"
    ELSE IF n >= 80 THEN "A"
    ELSE IF n >= 70 THEN "B"
    ELSE IF n >= 60 THEN "C"
    ELSE IF n >= 50 THEN "D"
    ELSE "F"

\* C10: for totalExpected > 0 the grade returned by calculateSessionScore is
\* the band of the overallScore it returns.
C10_GradeIsBandOfReturnedScore ==
    (Scored /\ counts[4] > 0)
        => score[1].grade = ScoreBand(score[1].overallScore)

\* C16: updateExpectedNotes on an active session replaces the expected notes
\* by the new ones; with resetProgress the cursor becomes 0, without it the
\* cursor keeps its value even when that value is now >= the number of new
\* notes; notesPlayed, notesCorrect, notesWrong, timingErrors, runningScore
\* and the event log are unchanged.
C16_UpdateReplacesNotesOnly ==
    [][(ret'.op = "update_expected_notes" /\ sessions[ret'.sid] # None)
        => /\ sessions'[ret'.sid] # None
           /\ LET old == sessions[ret'.sid][1]
                  new == sessions'[ret'.sid][1]
                  reset == ret'.args[1]
                  notes == ret'.args[2]
              IN  /\ Len(new.expected_notes) = Len(notes)
                  /\ \A i \in 1..Len(notes) :
                        /\ new.expected_notes[i].midi_note = notes[i].midiNote
                        /\ new.expected_notes[i].start_time = notes[i].startTime
                  /\ new.current_note_index = IF reset THEN 0 ELSE old.current_note_index
                  /\ new.notes_played = old.notes_played
                  /\ new.notes_correct = old.notes_correct
                  /\ new.notes_wrong = old.notes_wrong
                  /\ new.timing_errors = old.timing_errors
                  /\ new.current_score = old.current_score
                  /\ new.events = old.events]_vars

\* C16 witness: updateExpectedNotes with resetProgress has acted on a session
\* with notes played; the cursor is 0, the counts and the event log remain.
C16_Witness ==
    \E s \in SessionIds :
        /\ Live(s)
        /\ ret.op = "update_expected_notes" /\ ret.sid = s /\ ret.args[1] = TRUE
        /\ Cursor(s) = 0
        /\ Session(s).notes_correct >= 1
        /\ Session(s).events # <<>>
        /\ Len(Session(s).expected_notes) = 1

\* C17: sessions are isolated: processNote, updateExpectedNotes, getStats or
\* end on an active session A leaves every other active session B as it was
\* (expected notes, cursor, counts, running score, event log) and in the
\* table.
C17_SessionsIsolated ==
    [][(/\ ret'.op \in {"process_note", "update_expected_notes",
                        "get_current_stats", "end_session"}
        /\ sessions[ret'.sid] # None)
        => \A b \in SessionIds \ {ret'.sid} :
               sessions[b] # None
               => /\ sessions'[b] # None
                  /\ sessions'[b][1] = sessions[b][1]]_vars

\* C17 witness: end has acted on a session and returned its summary while
\* another session with a note played stays in the table.
C17_Witness ==
    /\ ret.op = "end_session" /\ ret.result # None
    /\ \E b \in SessionIds \ {ret.sid} :
           Live(b) /\ Session(b).notes_played >= 1 /\ Cursor(b) >= 1

\* C19: the persistence hand-off in end is fire-and-forget: whether or not
\* persisting succeeds, end on an active session returns the summary computed
\* from the session's counts, and no other session's state changes.
C19_EndReturnsSummaryWhenPersistFails ==
    [][(ret'.op = "end_session" /\ sessions[ret'.sid] # None)
        => /\ ret'.result = Some(final_results(sessions[ret'.sid][1]))
           /\ \A b \in SessionIds \ {ret'.sid} : sessions'[b] = sessions[b]]_vars

\* The calls of process_note that have returned feedback.
ReturnedFeedback ==
    {t \in ThreadIds : /\ threads[t].op = "process_note"
                       /\ threads[t].pc = "done"
                       /\ threads[t].result # None}
AllDone == threads # <<>> /\ \A t \in ThreadIds : threads[t].pc = "done"

Matched == matches # None
Result == matches[1]
PlayedIntervals == notes_to_intervals(played_notes)
CatalogIndexes == 1..Len(song_patterns)

\* The catalog position of the pattern a result entry reports.
CatalogIndex(m) == CHOOSE n \in CatalogIndexes : song_patterns[n].song_id = m.song_id

\* C11: with fewer than 4 played notes the result is empty whatever the
\* catalog holds; with exactly 4 played notes matching is attempted, so a
\* catalog pattern whose intervals are the played ones is reported.
C11_FewerThanFourNotesNoMatch ==
    Matched =>
        /\ Len(played_notes) < 4 => Result = <<>>
        /\ (/\ Len(played_notes) = 4
            /\ \E n \in CatalogIndexes :
                   song_intervals_of(song_patterns[n]) = PlayedIntervals)
           => Result # <<>>

\* C11 witness: exactly 4 notes were played and a pattern was reported.
C11_Witness == Matched /\ Len(played_notes) = 4 /\ Result # <<>>

\* C11 witness of the other case: 3 notes against a catalog that holds their
\* continuation, and nothing is reported.
C11_WitnessTooFew ==
    /\ Matched
    /\ Len(played_notes) = 3
    /\ Len(song_patterns) = Len(Pool)
    /\ Result = <<>>

Shifts == {-12, 1}
Transpose(notes, k) == [i \in 1..Len(notes) |-> notes[i] + k]

\* C12: shifting every played pitch by the same k leaves the returned list
\* unchanged: same patterns, confidences, order and match strategy.
C12_TranspositionInvariant ==
    Matched =>
        \A k \in Shifts :
            find_matching_songs(Transpose(played_notes, k), song_patterns, played_times)
                = Result

\* C12 witness: a call that reported entries with different strategies.
C12_Witness ==
    /\ Matched
    /\ \E i, j \in 1..Len(Result) : Result[i].match_type # Result[j].match_type

\* The entries find_matching_songs reports for each catalog pattern on its
\* own (empty when the pattern does not qualify).
\* (SubSeq makes the list a tuple whose entries are computed once.)
Alone == SubSeq([n \in CatalogIndexes |->
                    find_matching_songs(played_notes, <<song_patterns[n]>>, played_times)],
                1, Len(song_patterns))
QualifyingIn(alone) == {n \in CatalogIndexes : alone[n] # <<>>}
Returned == {CatalogIndex(Result[i]) : i \in 1..Len(Result)}

\* Candidate a ranks before candidate b: higher confidence, or the same
\* confidence and earlier in the catalog.
RanksBeforeIn(alone, a, b) ==
    \/ alone[a][1].confidence > alone[b][1].confidence
    \/ alone[a][1].confidence = alone[b][1].confidence /\ a < b
RanksBefore(a, b) == RanksBeforeIn(Alone, a, b)

\* C13: at most 5 entries, in descending confidence, equal confidences in
\* catalog order, and the entries are the first 5 of that ordering of all
\* qualifying candidates.
C13_TopFiveStableOrder ==
    Matched =>
        LET alone == Alone
            qualifying == QualifyingIn(alone)
            index == [i \in 1..Len(Result) |-> CatalogIndex(Result[i])]
        IN  /\ Len(Result) <= 5
            /\ Len(Result) = Min(5, Cardinality(qualifying))
            /\ Returned \subseteq qualifying
            /\ \A i \in 1..Len(Result) : Result[i] = alone[index[i]][1]
            /\ \A i, j \in 1..Len(Result) :
                   i < j => RanksBeforeIn(alone, index[i], index[j])
            /\ \A a \in Returned : \A b \in qualifying \ Returned :
                   RanksBeforeIn(alone, a, b)

\* C13 witness: more than 5 candidates qualified, a tie was reported and a
\* candidate tied with a reported one was cut.
C13_Witness ==
    /\ Matched
    /\ Cardinality(QualifyingIn(Alone)) > 5
    /\ \E i, j \in 1..Len(Result) :
           i # j /\ Result[i].confidence = Result[j].confidence
    /\ \E i, j \in 1..Len(Result) : Result[i].confidence # Result[j].confidence
    /\ \E b \in QualifyingIn(Alone) \ Returned :
           Alone[b][1].confidence = Result[Len(Result)].confidence

\* C14: every reported confidence is an integer from 60 to 99.
C14_ConfidenceRange ==
    Matched => \A i \in 1..Len(Result) : Result[i].confidence \in 60..99

\* The pitch score of catalog pattern n against the played notes.
PitchScore(n) == max_score(strategy_scores(PlayedIntervals, song_intervals_of(song_patterns[n])))

\* C14 witness: one reported entry scored above 1.0 through the start bonus
\* and is capped at 99, another sits at the threshold with confidence 60.
C14_Witness ==
    /\ Matched
    /\ \E i \in 1..Len(Result) :
           /\ Result[i].confidence = 99
           /\ RatLess(Rat(1, 1), PitchScore(CatalogIndex(Result[i])))
    /\ \E i \in 1..Len(Result) : Result[i].confidence < 70

\* Catalog pattern n has at least 3 intervals and the played intervals are
\* its intervals one for one.
PlayedExactly(n) ==
    /\ Len(song_intervals_of(song_patterns[n])) >= 3
    /\ PlayedIntervals = song_intervals_of(song_patterns[n])

ReportedAs(n, c) ==
    \E i \in 1..Len(Result) :
        Result[i].song_id = song_patterns[n].song_id /\ c = Result[i].confidence

\* The rhythm of the played timestamps takes part in the score of pattern n.
RhythmCounts(n) ==
    /\ played_rhythm_of(played_times) # None
    /\ played_rhythm_of(played_times)[1] # <<>>
    /\ song_patterns[n].rhythm # <<>>

\* C15 (as stated): a played sequence whose intervals are a pattern's
\* intervals one for one is reported for that pattern with confidence 99,
\* with or without played timestamps.
C15_RoundTripAlways99 ==
    Matched => \A n \in CatalogIndexes : PlayedExactly(n) => ReportedAs(n, 99)

\* C15 (amended): such a pattern is reported unless 5 candidates rank before
\* it; when reported its confidence is 99 if no rhythm takes part in the
\* score (no played timestamps, or a pattern without rhythm) and from 77 to
\* 99 if one does.
C15_RoundTrip ==
    Matched =>
        \A n \in CatalogIndexes :
            PlayedExactly(n) =>
                \/ /\ ~RhythmCounts(n)
                   /\ ReportedAs(n, 99)
                \/ /\ RhythmCounts(n)
                   /\ \E c \in 77..99 : ReportedAs(n, c)
                \/ /\ n \notin Returned
                   /\ Len(Result) = max_matches
                   /\ \A a \in Returned : RanksBefore(a, n)

\* C15 witness: a pattern played exactly, with timestamps whose rhythm is not
\* the pattern's, is reported below 99.
C15_Witness ==
    /\ Matched
    /\ \E n \in CatalogIndexes :
           /\ PlayedExactly(n)
           /\ RhythmCounts(n)
           /\ \E c \in 77..98 : ReportedAs(n, c)

\* C15 witness of the plain case: a pattern played exactly without
\* timestamps is reported with 99.
C15_WitnessNoTimes ==
    /\ Matched
    /\ played_times = None
    /\ \E n \in CatalogIndexes : PlayedExactly(n) /\ ReportedAs(n, 99)

\* The start-anchored score: the played intervals against the candidate's
\* intervals from position 0, with weights 1.0 / 0.8 / 0.5 for differences
\* 0 / 1 / 2, over the number of pairs compared.
StartPairs(p, song, d) ==
    Cardinality({i \in 1..Min(Len(p), Len(song)) : abs(p[i] - song[i]) = d})
StartAnchored(p, song) ==
    Rat(10 * StartPairs(p, song, 0) + 8 * StartPairs(p, song, 1)
            + 5 * StartPairs(p, song, 2),
        10 * Min(Len(p), Len(song)))

\* The three candidates for the pitch score of catalog pattern n.
Sliding(n) == sliding_window_match(PlayedIntervals, song_intervals_of(song_patterns[n]))
Subsequence(n) == subsequence_match(PlayedIntervals, song_intervals_of(song_patterns[n]))
BonusStart(n) ==
    RatMul(StartAnchored(PlayedIntervals, song_intervals_of(song_patterns[n])), Rat(11, 10))
BestOfThree(n) == RatMax(RatMax(Sliding(n), Subsequence(n)), BonusStart(n))

\* C22: the pitch score of a candidate is max(sliding, subsequence,
\* 1.1 * start-anchored); the reported match strategy names the first of
\* sliding, subsequence, start that attains it; the start-anchored score
\* compares from position 0 only with weights 1.0 / 0.8 / 0.5.
C22_BestOfThreeStrategies ==
    Matched =>
        \A i \in 1..Len(Result) :
            LET n == CatalogIndex(Result[i])
                sliding == Sliding(n)
                subsequence == Subsequence(n)
                best == RatMax(RatMax(sliding, subsequence), BonusStart(n))
            IN  /\ Result[i].match_type =
                       IF sliding = best THEN "sliding"
                       ELSE IF subsequence = best THEN "subsequence"
                       ELSE "start"
                /\ Result[i].confidence =
                       confidence_of(final_score(best, played_rhythm_of(played_times),
                                                 song_patterns[n].rhythm))

\* C22 witness: one reported entry is a tie of sliding and subsequence named
\* "sliding", another is named "start" and a third is named "subsequence".
C22_Witness ==
    /\ Matched
    /\ \E i \in 1..Len(Result) :
           /\ Result[i].match_type = "sliding"
           /\ Sliding(CatalogIndex(Result[i])) = Subsequence(CatalogIndex(Result[i]))
    /\ \E i \in 1..Len(Result) :
           /\ Result[i].match_type = "start"
           /\ RatLess(Sliding(CatalogIndex(Result[i])), BonusStart(CatalogIndex(Result[i])))
    /\ \E i \in 1..Len(Result) : Result[i].match_type = "subsequence"

\* Rhythm data on both sides: timestamps supplied, at least 2 of them, and
\* a non-empty rhythm field in catalog pattern n.
PlayedSideRhythm == played_times # None /\ Len(played_times[1]) >= 2
RhythmOnBothSides(n) == PlayedSideRhythm /\ song_patterns[n].rhythm # <<>>
RhythmScore(n) ==
    rhythm_match(normalize_rhythm(times_to_intervals(played_times[1])),
                 song_patterns[n].rhythm)
CombinedScore(n) ==
    IF RhythmOnBothSides(n)
    THEN RatAdd(RatMul(BestOfThree(n), Rat(7, 10)), RatMul(RhythmScore(n), Rat(3, 10)))
    ELSE BestOfThree(n)

\* The catalog with every rhythm field emptied.
WithoutRhythm(patterns) ==
    [i \in 1..Len(patterns) |-> [patterns[i] EXCEPT !.rhythm = <<>>]]

\* C23: the combined score of a candidate is pitchScore * 0.7 +
\* rhythmScore * 0.3 exactly when timestamps were supplied (at least 2) and
\* the candidate has rhythm data, and pitchScore otherwise; without played
\* timestamps the result does not depend on any candidate's rhythm field.
C23_RhythmBlend ==
    Matched =>
        /\ \A i \in 1..Len(Result) :
               Result[i].confidence = confidence_of(CombinedScore(CatalogIndex(Result[i])))
        /\ \A n \in CatalogIndexes :
               (Len(played_notes) >= min_notes_for_match
                   /\ Len(song_intervals_of(song_patterns[n])) >= 3
                   /\ ~RatLess(CombinedScore(n), similarity_threshold)
                   /\ Len(Result) < max_matches)
               => \E i \in 1..Len(Result) : CatalogIndex(Result[i]) = n
        /\ ~PlayedSideRhythm =>
               Result = find_matching_songs(played_notes, WithoutRhythm(song_patterns),
                                            played_times)

\* C23 witness: a call with timestamps reports one candidate with rhythm data
\* whose rhythm score changes the confidence, and one candidate without.
C23_Witness ==
    /\ Matched
    /\ PlayedSideRhythm
    /\ \E i \in 1..Len(Result) :
           /\ RhythmOnBothSides(CatalogIndex(Result[i]))
           /\ Result[i].confidence # confidence_of(BestOfThree(CatalogIndex(Result[i])))
    /\ \E i \in 1..Len(Result) : song_patterns[CatalogIndex(Result[i])].rhythm = <<>>

\* C23 witness: a single timestamp is supplied, the catalog has candidates
\* with rhythm data, and one of them is reported on its pitch score alone.
C23_WitnessOneTimestamp ==
    /\ Matched
    /\ played_times # None
    /\ Len(played_times[1]) = 1
    /\ \E i \in 1..Len(Result) : song_patterns[CatalogIndex(Result[i])].rhythm # <<>>

(***************************************************************************)
(* Properties of the matching strategies (specification SpecStrategy).     *)
(***************************************************************************)
\* The alignment offsets of seq1 against seq2 and the pairs compared at one.
Offsets == 0..(Max(1, Len(seq2) - Len(seq1) + 1) - 1)
Comparisons(offset) == Min(Len(seq1), Len(seq2) - offset)
PairsDiffering(offset, d) ==
    Cardinality({i \in 1..Comparisons(offset) : abs(seq1[i] - seq2[offset + i]) = d})

\* (exact + 0.7 * pairs differing by 1 + w2/100 * pairs differing by 2)
\* / comparisons, at an offset.
WeightedScore(offset, w2) ==
    Rat(100 * PairsDiffering(offset, 0) + 70 * PairsDiffering(offset, 1)
            + w2 * PairsDiffering(offset, 2),
        100 * Comparisons(offset))

\* x is the maximum over the offsets of the weighted score.
BestWeighted(x, w2) ==
    /\ \E offset \in Offsets : x = WeightedScore(offset, w2)
    /\ \A offset \in Offsets : ~RatLess(x, WeightedScore(offset, w2))

\* C20 (as stated): the sliding-window score is the maximum over the offsets
\* of (exact + 0.7 * pairs differing by 1 + 0.5 * pairs differing by 2)
\* / comparisons.
C20_SlidingWeightsHalf ==
    (strategy # None /\ seq1 # <<>> /\ seq2 # <<>>)
        => BestWeighted(strategy[1].sliding, 50)

\* C20 (amended): the sliding-window score is the maximum over the offsets of
\* (exact + 0.7 * pairs differing by 1 + 0.35 * pairs differing by 2)
\* / comparisons: a pair differing by 2 semitones counts as half a near
\* match and contributes 0.35.
C20_SlidingWeights ==
    (strategy # None /\ seq1 # <<>> /\ seq2 # <<>>)
        => BestWeighted(strategy[1].sliding, 35)

\* C20 witness: seq1 slid over seq2, and the best offset of the computed
\* score has a pair differing by 2 semitones next to an exact one.
C20_Witness ==
    /\ strategy # None
    /\ seq1 # <<>>
    /\ Len(seq2) > Len(seq1)
    /\ \E offset \in Offsets :
           /\ offset > 0
           /\ strategy[1].sliding = WeightedScore(offset, 35)
           /\ strategy[1].sliding # WeightedScore(offset, 50)
           /\ PairsDiffering(offset, 2) > 0
           /\ PairsDiffering(offset, 0) > 0

\* (sum over the pairs compared from a start position of +1 for an exact
\* match, +0.8 for a difference of 1, +0.5 for a difference of 2 and
\* -penalty/10 for a larger difference) / played length.
SubsequenceSum(start, penalty) ==
    Rat(10 * PairsDiffering(start, 0) + 8 * PairsDiffering(start, 1)
            + 5 * PairsDiffering(start, 2)
            - penalty * (Comparisons(start) - PairsDiffering(start, 0)
                         - PairsDiffering(start, 1) - PairsDiffering(start, 2)),
        10 * Len(seq1))
Starts == 0..(Len(seq2) - 1)

\* C21: the subsequence score is the maximum over the start positions of the
\* sum with +1 / +0.8 / +0.5 for differences 0 / 1 / 2 and -0.3 for a larger
\* difference, divided by the played length.
C21_SubsequencePenalty ==
    (strategy # None /\ seq1 # <<>> /\ seq2 # <<>>)
        => /\ \E start \in Starts : strategy[1].subsequence = SubsequenceSum(start, 3)
           /\ \A start \in Starts :
                  ~RatLess(strategy[1].subsequence, SubsequenceSum(start, 3))

\* What the code returns instead: the same maximum without the penalty.
C21_SubsequenceNoPenalty ==
    (strategy # None /\ seq1 # <<>> /\ seq2 # <<>>)
        => /\ \E start \in Starts : strategy[1].subsequence = SubsequenceSum(start, 0)
           /\ \A start \in Starts :
                  ~RatLess(strategy[1].subsequence, SubsequenceSum(start, 0))

(***************************************************************************)
(* Properties of the rhythm bucketing (specification SpecRhythm).          *)
(***************************************************************************)
\* The category the thresholds give a delta of d milliseconds.
Bucket(d) ==
    CASE d < 200 -> "S"
      [] 200 <= d /\ d < 500 -> "M"
      [] 500 <= d /\ d < 1000 -> "L"
      [] d >= 1000 -> "X"

C24_WitnessEmpty ==
    /\ rhythms # None
    /\ time_deltas = <<>>
    /\ rhythms[1].played = <<>>

(***************************************************************************)
(* Properties of the socket handlers (specification SpecSocket).           *)
(***************************************************************************)
\* C25: no session outlives its client connection: after a socket has
\* disconnected, no session that was started over it is in the table.
C25_NoSessionOutlivesSocket ==
    \A s \in SessionIds :
        (sessions[s] # None /\ started_over[s] # "") => connections[started_over[s]] # "closed"

====
